---------------------------- MODULE Spec2Model ----------------------------
(***************************************************************************)
(* Model of src/main.py: the funding-rate backend.                         *)
(*                                                                         *)
(* Two threads run the refresh cycle fetch_all_coinglass_data: the main    *)
(* thread (the initial fetch at startup) and the daemon thread             *)
(* background_updater.  They share the module globals funding_data_cache,  *)
(* arbitrage_opportunities, last_update and api_status, which the HTTP     *)
(* handlers read without any lock.                                         *)
(*                                                                         *)
(* Six specifications: Spec (the two threads and the refresh cycle),       *)
(* ScorerSpec (the scorer on a fixed quote list), CollectorSpec (one call  *)
(* of fetch_coinglass_funding_rates, request by request), WebhookSpec (the *)
(* TradingView webhook and its request threads), UpdaterSpec (the updater  *)
(* loop without end, under fairness) and CountdownSpec (one call of        *)
(* time_until_funding at an instant of the day).                           *)
(*                                                                         *)
(* Numbers.  A funding rate is an integer number of 1e-8 (the exchanges    *)
(* send 8 decimals), so round(x, 6) is rounding to a multiple of 100.  A   *)
(* yield in percent is an integer number of 1e-6 percent, so round(y, 2)   *)
(* is rounding to a multiple of 10000.  The rates of the input domains     *)
(* have no digit pattern that is a rounding tie.                           *)
(***************************************************************************)
EXTENDS Integers, Sequences, FiniteSets, TLC

(***************************************************************************)
(* Bounds of the model.                                                    *)
(***************************************************************************)
\* microseconds the clock may advance between two reads of it in one call
MaxElapsed == 2

\* refresh cycles the two threads may start altogether
MaxCycles == 2
\* longest quote list of the scorer's free input family
MaxQuotes == 3
\* symbols of the scorer's wide input family (one more than the top-N slice)
WideSymbols == 11
\* longest list of records in a Binance answer
MaxRecords == 2
\* webhook requests in flight together
MaxRequests == 2

(***************************************************************************)
(* Program constants.                                                      *)
(***************************************************************************)
\* last_update = None
None == 0
\* commission = 0.0008
Commission == 80000
\* abs(divergence) > 0.0001
MinDivergence == 10000
\* revenue_annual > 10
MinAnnual == 10000000
\* opportunities[:10]
TopN == 10
\* round(x, 6) on 1e-8 units
Round6Unit == 100
\* round(y, 2) on 1e-6 percent units
Round2Unit == 10000
\* data[-50:]
HistoryWindow == 50
\* if len(trading_signals) > 100
MaxSignals == 100
\* time.sleep(180)
UpdateInterval == 180
\* time.sleep(60)
ErrorBackoff == 60

Threads == {"main", "updater"}

VARIABLES
    funding_data_cache,
    arbitrage_opportunities,
    last_update,
    api_status,
    pc,
    all_results,
    results,
    funding_rates,
    coinglass_arbitrages,
    local_arbitrage_opportunities,
    opportunities,
    my_cycle,
    cycles,
    cacheCycle,
    oppsCycle,
    responses,
    binance_results,
    bybit_results,
    okx_results,
    queried,
    trading_signals,
    stored,
    hpc,
    request,
    reply,
    errors_before,
    slept,
    utcnow,
    next_funding,
    countdown,
    fpc

\* one call of fetch_coinglass_funding_rates looked at request by request:
\* what the remote services answered, the three lists the call binds, and the
\* services it has contacted
collector == <<responses, binance_results, bybit_results, okx_results, queried>>

\* the webhook: the global trading_signals, the number of signals stored so
\* far, and for each request thread its position, its request and its reply
webhook == <<trading_signals, stored, hpc, request, reply>>

\* the funding countdown: the clock datetime.utcnow() reads, the local
\* next_funding of time_until_funding, the dictionary it returns and the
\* position of the call
clock == <<utcnow, next_funding, countdown, fpc>>

\* what the steps inside a refresh cycle leave alone: the groups above, the
\* error count a cycle started from and the last sleep of the updater
aside == <<collector, webhook, clock, errors_before, slept>>

vars == <<funding_data_cache, arbitrage_opportunities, last_update, api_status,
          pc, all_results, results, funding_rates, coinglass_arbitrages,
          local_arbitrage_opportunities, opportunities, my_cycle,
          cycles, cacheCycle, oppsCycle, collector, webhook, clock,
          errors_before, slept>>

(***************************************************************************)
(* Arithmetic of the scorer.                                               *)
(***************************************************************************)
Abs(x) == IF x < 0 THEN -x ELSE x

\* round(x, ndigits): nearest multiple of unit, a tie going to the even one
Round(x, unit) ==
    LET q == x \div unit
        r == x % unit
    IN  IF 2 * r < unit THEN q * unit
        ELSE IF 2 * r > unit THEN (q + 1) * unit
        ELSE IF q % 2 = 0 THEN q * unit ELSE (q + 1) * unit

\* revenue_8h = abs(divergence) - commission
Revenue8h(divergence) == Abs(divergence) - Commission

\* revenue_annual = revenue_8h * 3 * 365 * 100, in 1e-6 percent
RevenueAnnual(divergence) == Revenue8h(divergence) * 3 * 365

ProfitableAboveZero(revenue_annual) == revenue_annual > 0

\* if revenue_annual > 10
Profitable(revenue_annual) == revenue_annual > MinAnnual

(***************************************************************************)
(* Quotes and symbols.  A market symbol "BTC/USDT:USDT" is the pair of its *)
(* base and its suffix; symbol.split('/')[0] is the base.                  *)
(***************************************************************************)
UsdtSuffix == "/USDT:USDT"

Quote(base, exchange, rate) ==
    [symbol |-> <<base, UsdtSuffix>>, exchange |-> exchange, fundingRate |-> rate]

SplitBase(symbol) == symbol[1]

RECURSIVE SymbolKeys(_)
\* the keys of by_symbol, in the order of their first quote
SymbolKeys(cache) ==
    IF cache = <<>> THEN <<>>
    ELSE LET front == SymbolKeys(SubSeq(cache, 1, Len(cache) - 1))
             last == cache[Len(cache)].symbol
         IN  IF \E i \in DOMAIN front : front[i] = last
             THEN front
             ELSE Append(front, last)

\* by_symbol[symbol]
RatesOf(cache, symbol) == SelectSeq(cache, LAMBDA r : r.symbol = symbol)

min_rate_last(rates) ==
    rates[CHOOSE i \in DOMAIN rates :
            /\ \A j \in DOMAIN rates : rates[j].fundingRate >= rates[i].fundingRate
            /\ \A j \in (i + 1)..Len(rates) : rates[j].fundingRate > rates[i].fundingRate]

\* min(rates, key=fundingRate): the first quote with the least rate
min_rate(rates) ==
    rates[CHOOSE i \in DOMAIN rates :
            /\ \A j \in DOMAIN rates : rates[j].fundingRate >= rates[i].fundingRate
            /\ \A j \in 1..(i - 1) : rates[j].fundingRate > rates[i].fundingRate]

\* max(rates, key=fundingRate): the first quote with the greatest rate
max_rate(rates) ==
    rates[CHOOSE i \in DOMAIN rates :
            /\ \A j \in DOMAIN rates : rates[j].fundingRate =< rates[i].fundingRate
            /\ \A j \in 1..(i - 1) : rates[j].fundingRate < rates[i].fundingRate]

DivergenceSwapped(maxq, minq) == minq.fundingRate - maxq.fundingRate

\* divergence = max_rate['fundingRate'] - min_rate['fundingRate']
Divergence(maxq, minq) == maxq.fundingRate - minq.fundingRate

\* the timing signal chosen from time_until_funding()['total_minutes']
Signal(total_minutes) ==
    IF total_minutes > 30 THEN "ENTRER MAINTENANT"
    ELSE IF total_minutes > 5 THEN "ENTRER BIENTOT"
    ELSE "SORTIR"

\* the values of total_minutes the scorer is run with
FundingMinutes == {3, 20, 100}

\* the two size tests of the loop body: len(rates) >= 2, abs(divergence) > 0.0001,
\* then revenue_annual > 10
Emits(rates) ==
    /\ Len(rates) >= 2
    /\ LET divergence == Divergence(max_rate(rates), min_rate(rates))
       IN  /\ Abs(divergence) > MinDivergence
           /\ Profitable(RevenueAnnual(divergence))

\* the dict appended to opportunities for one symbol
Opportunity(symbol, rates, total_minutes) ==
    LET minq == min_rate(rates)
        maxq == max_rate(rates)
        divergence == Divergence(maxq, minq)
        long == IF divergence > 0 THEN minq ELSE maxq
        short == IF divergence > 0 THEN maxq ELSE minq
    IN  [symbol |-> SplitBase(symbol),
         strategy |-> IF divergence > 0 THEN "Long/Short" ELSE "Short/Long",
         longExchange |-> long.exchange,
         shortExchange |-> short.exchange,
         longRate |-> Round(long.fundingRate, Round6Unit),
         shortRate |-> Round(short.fundingRate, Round6Unit),
         divergence |-> Round(Abs(divergence), Round6Unit),
         divergence_pct |-> Round(Abs(divergence), Round6Unit),
         commission |-> Round(Commission, Round6Unit),
         revenue_8h |-> Round(Revenue8h(divergence), Round6Unit),
         revenue_8h_pct |-> Round(Revenue8h(divergence), Round6Unit),
         revenue_annual_pct |-> Round(RevenueAnnual(divergence), Round2Unit),
         signal |-> Signal(total_minutes)]

RECURSIVE Collect(_, _, _)
\* the loop over by_symbol.items(): the opportunities in the order of the keys
Collect(cache, keys, total_minutes) ==
    IF keys = <<>> THEN <<>>
    ELSE LET rates == RatesOf(cache, Head(keys))
             rest == Collect(cache, Tail(keys), total_minutes)
         IN  IF Emits(rates)
             THEN <<Opportunity(Head(keys), rates, total_minutes)>> \o rest
             ELSE rest

RECURSIVE InsertDesc(_, _)
\* x placed after every element whose key is not smaller (a stable insertion)
InsertDesc(x, sorted) ==
    IF sorted = <<>> THEN <<x>>
    ELSE IF Head(sorted).revenue_annual_pct >= x.revenue_annual_pct
         THEN <<Head(sorted)>> \o InsertDesc(x, Tail(sorted))
         ELSE <<x>> \o sorted

RECURSIVE SortAsc(_)
SortAsc(opps) ==
    IF opps = <<>> THEN <<>>
    ELSE LET rest == SortAsc(SubSeq(opps, 1, Len(opps) - 1))
             x == opps[Len(opps)]
             RECURSIVE Ins(_)
             Ins(s) == IF s = <<>> THEN <<x>>
                       ELSE IF Head(s).revenue_annual_pct =< x.revenue_annual_pct
                            THEN <<Head(s)>> \o Ins(Tail(s))
                            ELSE <<x>> \o s
         IN  Ins(rest)

RECURSIVE SortDesc(_)
\* opportunities.sort(key=revenue_annual_pct, reverse=True): stable
SortDesc(opps) ==
    IF opps = <<>> THEN <<>>
    ELSE InsertDesc(opps[Len(opps)], SortDesc(SubSeq(opps, 1, Len(opps) - 1)))

\* opportunities[:10]
TopSlice(opps) == SubSeq(opps, 1, IF Len(opps) < TopN THEN Len(opps) ELSE TopN)

opportunities_kept == arbitrage_opportunities

\* opportunities = []
opportunities_init == <<>>


(***************************************************************************)
(* The collector.  What each remote API answers is an input of the cycle.  *)
(***************************************************************************)
\* results of fetch_binance_funding_direct: the history rows of one symbol
BinanceResults ==
    {<<>>, <<Quote("BTC", "binance", 60), Quote("BTC", "binance", 200040)>>}

\* results of fetch_bybit_funding_direct
BybitResults == {<<>>, <<Quote("BTC", "bybit", 200040)>>}

\* results of fetch_okx_funding_direct
OkxResults == {<<>>, <<Quote("BTC", "okx", -20040)>>}

\* results of the CoinGlass loop over TARGET_SYMBOLS[:5]
CoinglassResults ==
    {<<>>, <<Quote("ETH", "gate", 60), Quote("ETH", "binance", 200040)>>}

\* results of fetch_coinglass_arbitrage_data
CoinglassArbitrages ==
    {<<>>,
     <<[symbol |-> "SOL", strategy |-> "Long/Short",
        longExchange |-> "okx", shortExchange |-> "bybit",
        longRate |-> 0, shortRate |-> 150000,
        divergence |-> 150000, divergence_pct |-> 150000,
        commission |-> 80000,
        revenue_8h |-> 70000, revenue_8h_pct |-> 70000,
        revenue_annual_pct |-> 76650000,
        signal |-> "ENTRER MAINTENANT"]>>}

DirectOnly(binance, bybit, okx, coinglass) == binance \o bybit \o okx

\* the direct exchanges first; CoinGlass only when they returned nothing
fetch_coinglass_funding_rates(binance, bybit, okx, coinglass) ==
    LET direct == binance \o bybit \o okx
    IN  IF direct # <<>> THEN direct ELSE coinglass

(***************************************************************************)
(* The direct fetchers on the answers of the exchanges.  An answer is what *)
(* requests.get and response.json() give for one request: status "timeout" *)
(* when requests.get raises, "status_500" for a status code other than     *)
(* 200, "bad_json" when response.json() raises, "ok" with the decoded list *)
(* of records otherwise.  The fundingRate field of a record is absent, a   *)
(* JSON null, a string that is no number, or a numeral; a numeral carries  *)
(* the number it spells, in 1e-8.                                          *)
(***************************************************************************)
Absent == [json |-> "absent", units |-> 0]
Null == [json |-> "null", units |-> 0]
Text == [json |-> "text", units |-> 0]
Numeral(units) == [json |-> "numeral", units |-> units]

\* if funding_rate: item.get gives None for an absent field and for a null
Truthy(field) == field.json \in {"text", "numeral"}

\* float(funding_rate) raises ValueError on a string that is no number
FloatRaises(field) == field.json = "text"

\* float(funding_rate) of a numeral
Float(field) == field.units

Answer(status, body) == [status |-> status, body |-> body]

\* the outcome of a block of code: whether it raised, and what it had
\* appended to results by then
Outcome(raised, quotes) == [raised |-> raised, results |-> quotes]

\* data[-50:]
Last50(data) ==
    SubSeq(data, IF Len(data) > HistoryWindow THEN Len(data) - HistoryWindow + 1 ELSE 1,
           Len(data))

RECURSIVE binance_loop(_)
\* for item in data[-50:]: the records whose symbol ends with USDT and whose
\* rate is truthy are converted and appended
binance_loop(items) ==
    IF items = <<>> THEN Outcome(FALSE, <<>>)
    ELSE LET item == Head(items)
         IN  IF item.symbol[2] = "USDT" /\ Truthy(item.fundingRate)
             THEN IF FloatRaises(item.fundingRate) THEN Outcome(TRUE, <<>>)
                  ELSE LET rest == binance_loop(Tail(items))
                       IN  Outcome(rest.raised,
                                   <<Quote(item.symbol[1], "binance",
                                           Float(item.fundingRate))>>
                                       \o rest.results)
             ELSE binance_loop(Tail(items))

\* the try block of fetch_binance_funding_direct
binance_try(answer) ==
    IF answer.status \in {"timeout", "bad_json"} THEN Outcome(TRUE, <<>>)
    ELSE IF answer.status # "ok" THEN Outcome(FALSE, <<>>)
    ELSE binance_loop(Last50(answer.body))

propagate(outcome) == outcome

\* except Exception as e: return []
return_empty(outcome) ==
    IF outcome.raised THEN Outcome(FALSE, <<>>) ELSE outcome

fetch_binance_funding_direct(answer) == return_empty(binance_try(answer))

RECURSIVE item_loop(_, _, _)
\* for item in data['result']['list'] (Bybit), for item in data['data'] (OKX)
item_loop(exchange, base, items) ==
    IF items = <<>> THEN Outcome(FALSE, <<>>)
    ELSE LET item == Head(items)
         IN  IF Truthy(item.fundingRate)
             THEN IF FloatRaises(item.fundingRate) THEN Outcome(TRUE, <<>>)
                  ELSE LET rest == item_loop(exchange, base, Tail(items))
                       IN  Outcome(rest.raised,
                                   <<Quote(base, exchange, Float(item.fundingRate))>>
                                       \o rest.results)
             ELSE item_loop(exchange, base, Tail(items))

\* the inner try block of the loop over the symbols
symbol_try(exchange, base, answer) ==
    IF answer.status \in {"timeout", "bad_json"} THEN Outcome(TRUE, <<>>)
    ELSE IF answer.status # "ok" THEN Outcome(FALSE, <<>>)
    ELSE item_loop(exchange, base, answer.body)

RECURSIVE symbol_loop(_, _, _)
\* for symbol in test_symbols: try ... except Exception: continue.  What a
\* symbol had appended before it raised stays in results.
symbol_loop(exchange, symbols, answers) ==
    IF symbols = <<>> THEN <<>>
    ELSE symbol_try(exchange, Head(symbols), Head(answers)).results
            \o symbol_loop(exchange, Tail(symbols), Tail(answers))

\* test_symbols, cut to its first two symbols
test_symbols == <<"BTC", "ETH">>

\* test_instruments, cut to its first two instruments
test_instruments == <<"BTC", "ETH">>

fetch_bybit_funding_direct(answers) == symbol_loop("bybit", test_symbols, answers)

fetch_okx_funding_direct(answers) == symbol_loop("okx", test_instruments, answers)

always_queries(direct) == TRUE

\* if all_results: return all_results; the CoinGlass loop runs otherwise
queries_coinglass(direct) == direct = <<>>

\* the ways one request fails as a whole
Failures == {Answer("timeout", <<>>), Answer("status_500", <<>>),
             Answer("bad_json", <<>>)}

\* the records of a Binance answer
BinanceRecords ==
    {[symbol |-> <<"BTC", "USDT">>, fundingRate |-> Numeral(60)],
     [symbol |-> <<"ETH", "USDT">>, fundingRate |-> Numeral(200040)],
     [symbol |-> <<"ETH", "USDT">>, fundingRate |-> Absent],
     [symbol |-> <<"ETH", "USDT">>, fundingRate |-> Null],
     [symbol |-> <<"ETH", "USDT">>, fundingRate |-> Text],
     [symbol |-> <<"ETH", "BUSD">>, fundingRate |-> Numeral(60)]}

\* what Binance answers to the one request of the fetcher
BinanceAnswers ==
    Failures \cup {Answer("ok", body) :
                    body \in UNION {[1..n -> BinanceRecords] : n \in 0..MaxRecords}}

\* what Bybit or OKX answers to the request for one symbol ('limit': 1)
SymbolAnswers ==
    Failures \cup {Answer("ok", <<[fundingRate |-> f]>>) :
                    f \in {Absent, Null, Text, Numeral(200040)}}

\* one answer per symbol of test_symbols
BybitAnswers == [1..Len(test_symbols) -> SymbolAnswers]

\* one answer per instrument of test_instruments
OkxAnswers == [1..Len(test_instruments) -> SymbolAnswers]

NoAnswers == [binance |-> Answer("none", <<>>),
              bybit |-> [k \in 1..Len(test_symbols) |-> Answer("none", <<>>)],
              okx |-> [k \in 1..Len(test_instruments) |-> Answer("none", <<>>)]]

\* no call of fetch_coinglass_funding_rates is looked at request by request
CollectorIdle ==
    /\ responses = NoAnswers
    /\ binance_results = <<>>
    /\ bybit_results = <<>>
    /\ okx_results = <<>>
    /\ queried = {}

(***************************************************************************)
(* The TradingView webhook.  A request is its body ("absent": no body and  *)
(* no JSON content type; "empty": declared JSON with nothing in it;        *)
(* "empty_object": {}; "object") and the fields of the object.  A symbol   *)
(* is a JSON string, the pair of a base and a suffix, or a JSON number.    *)
(***************************************************************************)
Handlers == 1..MaxRequests

webhook_auth_key == "YOUR_SECRET_KEY_2024"

Symbol(base, suffix) == [json |-> "string", base |-> base, suffix |-> suffix]

NumberSymbol == [json |-> "number", base |-> "", suffix |-> ""]

\* data.get('symbol', '') of an object without the field
NoSymbol == Symbol("", "")

Post(body, auth_key, symbol, action, strategy) ==
    [body |-> body, auth_key |-> auth_key, symbol |-> symbol,
     action |-> action, strategy |-> strategy]

NoRequest == Post("none", "", NoSymbol, "", "")

\* request.get_json(): the object; None or an exception (415, 400) for a
\* request that does not declare JSON, depending on the Flask release; an
\* exception (400) for a declared JSON body that cannot be decoded
get_json(req) ==
    IF req.body = "absent" THEN {"none", "raises"}
    ELSE IF req.body = "empty" THEN {"raises"}
    ELSE {req.body}

no_replace(symbol) == symbol

\* symbol.replace('/USDT:USDT', '')
replace_suffix(symbol) ==
    IF symbol.suffix = UsdtSuffix THEN Symbol(symbol.base, "") ELSE symbol

\* opp['symbol'] == symbol.replace('/USDT:USDT', '')
Matches(opp, symbol) ==
    LET replaced == replace_suffix(symbol)
    IN  replaced.suffix = "" /\ replaced.base = opp.symbol

Result(status, action, long, short, revenue) ==
    [status |-> status, action |-> action, long_exchange |-> long,
     short_exchange |-> short, expected_revenue |-> revenue]

NoResult == Result("none", "", "", "", 0)

\* process_arbitrage_signal(signal_data), reading the list published now
process_arbitrage_signal(signal, published) ==
    IF signal.symbol.json # "string" THEN Result("error", "", "", "", 0)
    ELSE LET found == {i \in DOMAIN published : Matches(published[i], signal.symbol)}
         IN  IF found = {} THEN Result("warning", "", "", "", 0)
             ELSE LET current_opportunity ==
                        published[CHOOSE i \in found : \A j \in found : i =< j]
                  IN  IF signal.action = "ENTER"
                      THEN Result("success", "ENTER_ARBITRAGE",
                                  current_opportunity.longExchange,
                                  current_opportunity.shortExchange,
                                  current_opportunity.revenue_annual_pct)
                      ELSE IF signal.action = "EXIT"
                      THEN Result("success", "EXIT_ARBITRAGE", "", "", 0)
                      ELSE Result("warning", "", "", "", 0)

\* the status code the checks of tradingview_webhook end with, 0 when the
\* request passes them all
webhook_check(req, data) ==
    IF data = "raises" THEN 500
    ELSE IF data \in {"none", "empty_object"} THEN 400
    ELSE IF req.auth_key # webhook_auth_key THEN 401
    ELSE IF req.symbol = Symbol("", "") \/ req.action = "" THEN 400
    ELSE 0

pop_last(signals) == SubSeq(signals, 1, Len(signals) - 1)

\* trading_signals.pop(0)
pop_first(signals) == Tail(signals)

Reply(code, result) == [code |-> code, result |-> result]

NoReply == Reply(0, NoResult)

\* the signal_data dict, with the rank of its append
Stored(req, rank) ==
    [symbol |-> req.symbol, action |-> req.action, strategy |-> req.strategy,
     rank |-> rank]

\* the requests the webhook is sent
Requests ==
    {Post("absent", "", NoSymbol, "", ""),
     Post("empty", "", NoSymbol, "", ""),
     Post("empty_object", "", NoSymbol, "", ""),
     Post("object", "guess", Symbol("BTC", UsdtSuffix), "ENTER", "arbitrage"),
     Post("object", "guess", NoSymbol, "", "arbitrage"),
     Post("object", webhook_auth_key, NoSymbol, "ENTER", "arbitrage"),
     Post("object", webhook_auth_key, Symbol("BTC", UsdtSuffix), "", "arbitrage"),
     Post("object", webhook_auth_key, Symbol("BTC", UsdtSuffix), "ENTER", "arbitrage"),
     Post("object", webhook_auth_key, Symbol("ETH", UsdtSuffix), "ENTER", "arbitrage"),
     Post("object", webhook_auth_key, Symbol("ETH", ""), "EXIT", "arbitrage"),
     Post("object", webhook_auth_key, Symbol("ETH", "USDT"), "ENTER", "arbitrage"),
     Post("object", webhook_auth_key, Symbol("SOL", UsdtSuffix), "ENTER", "arbitrage"),
     Post("object", webhook_auth_key, Symbol("BTC", UsdtSuffix), "BUY", "arbitrage"),
     Post("object", webhook_auth_key, NumberSymbol, "ENTER", "arbitrage"),
     Post("object", webhook_auth_key, Symbol("BTC", UsdtSuffix), "ENTER", "scalping")}

\* no webhook request has been received
WebhookIdle ==
    /\ trading_signals = <<>>
    /\ stored = 0
    /\ hpc = [h \in Handlers |-> "waiting"]
    /\ request = [h \in Handlers |-> NoRequest]
    /\ reply = [h \in Handlers |-> NoReply]

(***************************************************************************)
(* The funding countdown.  An instant is what a datetime holds: a day      *)
(* (counted from the day of the call), an hour, a minute, a second and a   *)
(* microsecond.  A timedelta is a whole number of seconds, negative or     *)
(* not, and 0 to 999999 microseconds on top of it, as Python keeps it.     *)
(***************************************************************************)
DateTime(day, hour, minute, second, microsecond) ==
    [day |-> day, hour |-> hour, minute |-> minute, second |-> second,
     microsecond |-> microsecond]

Midnight == DateTime(0, 0, 0, 0, 0)

\* next_funding before line 67 has run
NoTime == DateTime(-1, 0, 0, 0, 0)

SecondsOf(t) == ((t.day * 24 + t.hour) * 60 + t.minute) * 60 + t.second

FromSeconds(s, microsecond) ==
    DateTime(s \div 86400, (s % 86400) \div 3600, (s % 3600) \div 60, s % 60,
             microsecond)

\* a > b on two datetimes
Later(a, b) ==
    \/ SecondsOf(a) > SecondsOf(b)
    \/ SecondsOf(a) = SecondsOf(b) /\ a.microsecond > b.microsecond

\* now.replace(hour=hour, minute=0, second=0, microsecond=0)
replace(now, hour) == DateTime(now.day, hour, 0, 0, 0)

\* now + timedelta(days=1)
tomorrow(now) == [now EXCEPT !.day = @ + 1]

\* 00:00, 08:00, 16:00 UTC
funding_hours == <<0, 8, 16>>

\* for hour in funding_hours: ... return next_time; after the loop, tomorrow
\* at 00:00
RECURSIVE funding_loop(_, _)
funding_loop(now, hours) ==
    IF hours = <<>> THEN replace(tomorrow(now), 0)
    ELSE LET next_time == replace(now, Head(hours))
         IN  IF Later(next_time, now) THEN next_time
             ELSE funding_loop(now, Tail(hours))

get_next_funding_time(now) == funding_loop(now, funding_hours)

\* a - b on two datetimes
Minus(a, b) ==
    LET s == SecondsOf(a) - SecondsOf(b)
        us == a.microsecond - b.microsecond
    IN  IF us < 0 THEN [seconds |-> s - 1, microseconds |-> us + 1000000]
        ELSE [seconds |-> s, microseconds |-> us]

\* delta.total_seconds() // n: total_seconds() is a float whose integer part
\* is delta.seconds here and whose fraction is the microseconds, and // is
\* the floor
floor_div(delta, n) == delta.seconds \div n

\* (delta.total_seconds() % n) // m
mod_floor_div(delta, n, m) == (delta.seconds % n) \div m

Countdown(next, hours, minutes, total) ==
    [next_funding_utc |-> next, hours_remaining |-> hours,
     minutes_remaining |-> minutes, total_minutes |-> total]

NoCountdown == Countdown(NoTime, 0, 0, 0)

\* lines 69 to 79 of time_until_funding, from its two locals
time_until_funding(next, now) ==
    LET delta == Minus(next, now)
    IN  Countdown(next, floor_div(delta, 3600), mod_floor_div(delta, 3600, 60),
                  floor_div(delta, 60))

\* the clock some microseconds later
Advance(t, elapsed) ==
    LET us == t.microsecond + elapsed
    IN  FromSeconds(SecondsOf(t) + us \div 1000000, us % 1000000)

\* the instants of the day at which time_until_funding is called: every
\* hour, at its first and last minute, second and microseconds
Instants ==
    {DateTime(0, hour, minute, second, microsecond) :
        hour \in 0..23, minute \in {0, 59}, second \in {0, 59},
        microsecond \in {0, 1, 999999}}

\* no call of time_until_funding is looked at
ClockIdle ==
    /\ utcnow = Midnight
    /\ next_funding = NoTime
    /\ countdown = NoCountdown
    /\ fpc = "idle"

(***************************************************************************)
(* The state after the module is loaded.                                   *)
(***************************************************************************)
Unbound == [bound |-> FALSE, value |-> <<>>]

Init ==
    /\ funding_data_cache = <<>>
    /\ arbitrage_opportunities = <<>>
    /\ last_update = None
    /\ api_status = [status |-> "initializing", errors |-> 0]
    /\ pc = [t \in Threads |-> IF t = "main" THEN "start_updater" ELSE "unstarted"]
    /\ all_results = [t \in Threads |-> <<>>]
    /\ results = [t \in Threads |-> <<>>]
    /\ funding_rates = [t \in Threads |-> <<>>]
    /\ coinglass_arbitrages = [t \in Threads |-> <<>>]
    /\ local_arbitrage_opportunities = [t \in Threads |-> Unbound]
    /\ opportunities = [t \in Threads |-> <<>>]
    /\ my_cycle = [t \in Threads |-> 0]
    /\ cycles = 0
    /\ cacheCycle = 0
    /\ oppsCycle = 0
    /\ CollectorIdle
    /\ WebhookIdle
    /\ errors_before = [t \in Threads |-> 0]
    /\ slept = 0
    /\ ClockIdle

globals == <<funding_data_cache, arbitrage_opportunities, last_update, api_status>>
ghosts == <<cacheCycle, oppsCycle>>
frames == <<all_results, results, funding_rates, coinglass_arbitrages,
            local_arbitrage_opportunities, opportunities>>

\* the locals of fetch_all_coinglass_data and of its callees are gone on return
DropFrame(t) ==
    /\ all_results' = [all_results EXCEPT ![t] = <<>>]
    /\ results' = [results EXCEPT ![t] = <<>>]
    /\ funding_rates' = [funding_rates EXCEPT ![t] = <<>>]
    /\ coinglass_arbitrages' = [coinglass_arbitrages EXCEPT ![t] = <<>>]
    /\ local_arbitrage_opportunities' =
            [local_arbitrage_opportunities EXCEPT ![t] = Unbound]
    /\ opportunities' = [opportunities EXCEPT ![t] = <<>>]
    /\ errors_before' = [errors_before EXCEPT ![t] = 0]

(***************************************************************************)
(* __main__ and background_updater.                                        *)
(***************************************************************************)
\* update_thread.start()
StartUpdater ==
    /\ pc["main"] = "start_updater"
    /\ pc' = [pc EXCEPT !["main"] = "initial_fetch", !["updater"] = "loop"]
    /\ UNCHANGED <<aside, globals, ghosts, frames, my_cycle, cycles>>

\* the entry of fetch_all_coinglass_data; errors_before keeps the error
\* count the cycle starts from
EnterCycle(t) ==
    /\ cycles < MaxCycles
    /\ cycles' = cycles + 1
    /\ my_cycle' = [my_cycle EXCEPT ![t] = cycles + 1]
    /\ errors_before' = [errors_before EXCEPT ![t] = api_status.errors]
    /\ pc' = [pc EXCEPT ![t] = "fetch_rates"]
    /\ UNCHANGED <<collector, webhook, clock, slept, globals, ghosts, frames>>

\* the initial fetch of the main thread
InitialFetch ==
    /\ pc["main"] = "initial_fetch"
    /\ EnterCycle("main")

\* while True: fetch_all_coinglass_data()
UpdaterLoop ==
    /\ pc["updater"] = "loop"
    /\ EnterCycle("updater")

\* the return to the main thread: app.run
ServeForever ==
    /\ pc["main"] = "returned"
    /\ pc' = [pc EXCEPT !["main"] = "app_run"]
    /\ DropFrame("main")
    /\ UNCHANGED <<collector, webhook, clock, slept, globals, ghosts, my_cycle,
                   cycles>>

thread_exit == "exited"

\* while True
next_iteration == "loop"

\* the rest of the loop body of background_updater: time.sleep(180) after
\* the call returned, time.sleep(60) in the except clause after it raised
\* (fetch_all_coinglass_data catches every exception, so it never does);
\* then the next iteration
UpdaterSleep ==
    /\ pc["updater"] \in {"returned", "raised"}
    /\ slept' = IF pc["updater"] = "raised" THEN ErrorBackoff ELSE UpdateInterval
    /\ pc' = [pc EXCEPT !["updater"] = next_iteration]
    /\ DropFrame("updater")
    /\ UNCHANGED <<collector, webhook, clock, globals, ghosts, my_cycle, cycles>>

(***************************************************************************)
(* fetch_all_coinglass_data, statement by statement.                       *)
(***************************************************************************)
\* funding_rates = fetch_coinglass_funding_rates(); funding_data_cache = funding_rates
FetchRates(t) ==
    /\ pc[t] = "fetch_rates"
    /\ \E binance \in BinanceResults, bybit \in BybitResults,
          okx \in OkxResults, coinglass \in CoinglassResults :
         /\ all_results' = [all_results EXCEPT ![t] = binance \o bybit \o okx]
         /\ results' = [results EXCEPT ![t] =
                IF binance \o bybit \o okx = <<>> THEN coinglass ELSE <<>>]
         /\ funding_rates' = [funding_rates EXCEPT ![t] =
                fetch_coinglass_funding_rates(binance, bybit, okx, coinglass)]
    /\ funding_data_cache' = funding_rates'[t]
    /\ cacheCycle' = my_cycle[t]
    /\ pc' = [pc EXCEPT ![t] = "fetch_arbitrage"]
    /\ UNCHANGED <<aside, arbitrage_opportunities, last_update, api_status,
                   coinglass_arbitrages, local_arbitrage_opportunities,
                   opportunities, my_cycle, cycles, oppsCycle>>

\* coinglass_arbitrages = fetch_coinglass_arbitrage_data(); if coinglass_arbitrages
FetchArbitrage(t) ==
    /\ pc[t] = "fetch_arbitrage"
    /\ \E arbitrages \in CoinglassArbitrages :
         /\ coinglass_arbitrages' = [coinglass_arbitrages EXCEPT ![t] = arbitrages]
         /\ pc' = [pc EXCEPT ![t] =
                IF arbitrages # <<>> THEN "use_coinglass" ELSE "calculate"]
    /\ UNCHANGED <<aside, globals, ghosts, all_results, results, funding_rates,
                   local_arbitrage_opportunities, opportunities,
                   my_cycle, cycles>>

\* arbitrage_opportunities = coinglass_arbitrages: the name is not declared
\* global in this function, so the statement binds a local
UseCoinglass(t) ==
    /\ pc[t] = "use_coinglass"
    /\ local_arbitrage_opportunities' = [local_arbitrage_opportunities EXCEPT
            ![t] = [bound |-> TRUE, value |-> coinglass_arbitrages[t]]]
    /\ pc' = [pc EXCEPT ![t] = "set_last_update"]
    /\ UNCHANGED <<aside, globals, ghosts, all_results, results, funding_rates,
                   coinglass_arbitrages, opportunities, my_cycle, cycles>>

\* calculate_arbitrage_from_funding_data up to the sort: reads the global
\* funding_data_cache, builds and sorts the local list.  The clock is read
\* once for the call (the code reads it once per opportunity).
CalcRead(t) ==
    /\ pc[t] = "calculate"
    /\ \E total_minutes \in FundingMinutes :
         opportunities' = [opportunities EXCEPT ![t] =
            SortDesc(opportunities_init \o
                     Collect(funding_data_cache, SymbolKeys(funding_data_cache),
                             total_minutes))]
    /\ pc' = [pc EXCEPT ![t] = "calc_write"]
    /\ UNCHANGED <<aside, globals, ghosts, all_results, results, funding_rates,
                   coinglass_arbitrages, local_arbitrage_opportunities,
                   my_cycle, cycles>>

\* arbitrage_opportunities = opportunities[:10] (the global one), and return
CalcWrite(t) ==
    /\ pc[t] = "calc_write"
    /\ arbitrage_opportunities' = TopSlice(opportunities[t])
    /\ opportunities' = [opportunities EXCEPT ![t] = <<>>]
    /\ oppsCycle' = my_cycle[t]
    /\ pc' = [pc EXCEPT ![t] = "set_last_update"]
    /\ UNCHANGED <<aside, funding_data_cache, last_update, api_status, all_results,
                   results, funding_rates, coinglass_arbitrages,
                   local_arbitrage_opportunities, my_cycle, cycles, cacheCycle>>

\* last_update = datetime.utcnow(): the instant is named by the cycle
SetLastUpdate(t) ==
    /\ pc[t] = "set_last_update"
    /\ last_update' = my_cycle[t]
    /\ pc' = [pc EXCEPT ![t] = "set_status"]
    /\ UNCHANGED <<aside, funding_data_cache, arbitrage_opportunities, api_status,
                   ghosts, frames, my_cycle, cycles>>

\* api_status = {'status': 'success', 'errors': 0, ...}
SetStatus(t) ==
    /\ pc[t] = "set_status"
    /\ api_status' = [status |-> "success", errors |-> 0]
    /\ pc' = [pc EXCEPT ![t] = "log_data"]
    /\ UNCHANGED <<aside, funding_data_cache, arbitrage_opportunities, last_update,
                   ghosts, frames, my_cycle, cycles>>

\* the log line reading len(arbitrage_opportunities): the local name, which
\* is unbound on the calculated path, so the read raises UnboundLocalError
LogData(t) ==
    /\ pc[t] = "log_data"
    /\ pc' = [pc EXCEPT ![t] =
            IF local_arbitrage_opportunities[t].bound THEN "returned" ELSE "except"]
    /\ UNCHANGED <<aside, globals, ghosts, frames, my_cycle, cycles>>

\* except Exception: api_status = {'status': 'error', 'errors': errors + 1, ...}
Except(t) ==
    /\ pc[t] = "except"
    /\ api_status' = [status |-> "error", errors |-> api_status.errors + 1]
    /\ pc' = [pc EXCEPT ![t] = "returned"]
    /\ UNCHANGED <<aside, funding_data_cache, arbitrage_opportunities, last_update,
                   ghosts, frames, my_cycle, cycles>>

Next ==
    \/ StartUpdater
    \/ InitialFetch
    \/ UpdaterLoop
    \/ ServeForever
    \/ UpdaterSleep
    \/ \E t \in Threads : FetchRates(t)
    \/ \E t \in Threads : FetchArbitrage(t)
    \/ \E t \in Threads : UseCoinglass(t)
    \/ \E t \in Threads : CalcRead(t)
    \/ \E t \in Threads : CalcWrite(t)
    \/ \E t \in Threads : SetLastUpdate(t)
    \/ \E t \in Threads : SetStatus(t)
    \/ \E t \in Threads : LogData(t)
    \/ \E t \in Threads : Except(t)

Spec == Init /\ [][Next]_vars

(***************************************************************************)
(* The read handlers: what a request answered in the current state holds.  *)
(***************************************************************************)
\* GET /api/funding-rates
get_funding_rates ==
    [data |-> funding_data_cache, count |-> Len(funding_data_cache),
     last_update |-> last_update, api_status |-> api_status]

\* GET /api/arbitrage
get_arbitrage ==
    [data |-> arbitrage_opportunities, count |-> Len(arbitrage_opportunities),
     last_update |-> last_update, api_status |-> api_status]

\* GET /api/status
get_status ==
    [last_update |-> last_update,
     cached_rates_count |-> Len(funding_data_cache),
     arbitrage_opportunities_count |-> Len(arbitrage_opportunities),
     api_status |-> api_status]

(***************************************************************************)
(* The scorer on its own: calculate_arbitrage_from_funding_data called     *)
(* again and again by the main thread on one quote list, from any earlier  *)
(* content of arbitrage_opportunities.                                     *)
(***************************************************************************)
Rates == {-20040, 60, 65000, 200040}

Exchanges == {"binance", "bybit"}

QuoteDomain ==
    {Quote("BTC", e, r) : e \in Exchanges, r \in Rates}
        \cup {Quote("ETH", e, r) : e \in Exchanges, r \in {60, 200040}}

\* every quote list of at most MaxQuotes quotes
ShortLists == UNION {[1..n -> QuoteDomain] : n \in 0..MaxQuotes}

\* TARGET_SYMBOLS, and three more
SymbolNames ==
    <<"BTC", "ETH", "SOL", "XRP", "DOGE", "ADA", "AVAX", "MATIC", "LINK", "DOT",
      "LTC", "BNB", "ATOM">>

\* WideSymbols symbols, each quoted by binance and then by bybit
WideList(low) ==
    [k \in 1..(2 * WideSymbols) |->
        IF k =< WideSymbols
        THEN Quote(SymbolNames[k], "binance", low[k])
        ELSE Quote(SymbolNames[k - WideSymbols], "bybit", 200040)]

\* the binance rates of a wide list: 115040 leaves the first symbol a spread
\* whose yield is positive and below the threshold
WideLows == {low \in [1..WideSymbols -> {60, 65000, 115040}] :
                \A k \in 2..WideSymbols : low[k] # 115040}

WideLists == {WideList(low) : low \in WideLows}

\* what arbitrage_opportunities may hold before the scorer runs
PreviousContents == CoinglassArbitrages

ScorerInit ==
    /\ funding_data_cache \in ShortLists \cup WideLists
    /\ arbitrage_opportunities \in PreviousContents
    /\ last_update = None
    /\ api_status = [status |-> "initializing", errors |-> 0]
    /\ pc = [t \in Threads |-> IF t = "main" THEN "calculate" ELSE "unstarted"]
    /\ all_results = [t \in Threads |-> <<>>]
    /\ results = [t \in Threads |-> <<>>]
    /\ funding_rates = [t \in Threads |-> <<>>]
    /\ coinglass_arbitrages = [t \in Threads |-> <<>>]
    /\ local_arbitrage_opportunities = [t \in Threads |-> Unbound]
    /\ opportunities = [t \in Threads |-> <<>>]
    /\ my_cycle = [t \in Threads |-> IF t = "main" THEN 1 ELSE 0]
    /\ cycles = 1
    /\ cacheCycle = 1
    /\ oppsCycle = 0
    /\ CollectorIdle
    /\ WebhookIdle
    /\ errors_before = [t \in Threads |-> 0]
    /\ slept = 0
    /\ ClockIdle

\* calculate_arbitrage_from_funding_data() called once more
CallAgain ==
    /\ pc["main"] = "set_last_update"
    /\ pc' = [pc EXCEPT !["main"] = "calculate"]
    /\ UNCHANGED <<aside, globals, ghosts, frames, my_cycle, cycles>>

ScorerNext ==
    \/ CalcRead("main")
    \/ CalcWrite("main")
    \/ CallAgain

ScorerSpec == ScorerInit /\ [][ScorerNext]_vars

(***************************************************************************)
(* The collector on its own: one call of fetch_coinglass_funding_rates by  *)
(* the main thread, request by request.                                    *)
(***************************************************************************)
CollectorInit ==
    /\ funding_data_cache = <<>>
    /\ arbitrage_opportunities = <<>>
    /\ last_update = None
    /\ api_status = [status |-> "initializing", errors |-> 0]
    /\ pc = [t \in Threads |-> IF t = "main" THEN "fetch_binance" ELSE "loop"]
    /\ all_results = [t \in Threads |-> <<>>]
    /\ results = [t \in Threads |-> <<>>]
    /\ funding_rates = [t \in Threads |-> <<>>]
    /\ coinglass_arbitrages = [t \in Threads |-> <<>>]
    /\ local_arbitrage_opportunities = [t \in Threads |-> Unbound]
    /\ opportunities = [t \in Threads |-> <<>>]
    /\ my_cycle = [t \in Threads |-> IF t = "main" THEN 1 ELSE 0]
    /\ cycles = 1
    /\ cacheCycle = 0
    /\ oppsCycle = 0
    /\ CollectorIdle
    /\ WebhookIdle
    /\ errors_before = [t \in Threads |-> 0]
    /\ slept = 0
    /\ ClockIdle

untouched_by_collector ==
    <<globals, ghosts, coinglass_arbitrages, local_arbitrage_opportunities,
      opportunities, my_cycle, cycles, webhook, clock, errors_before, slept>>

\* an exception that leaves a fetcher reaches the except of
\* fetch_coinglass_funding_rates: return []
RatesExcept ==
    /\ funding_rates' = [funding_rates EXCEPT !["main"] = <<>>]
    /\ pc' = [pc EXCEPT !["main"] = "rates_returned"]
    /\ UNCHANGED <<all_results, binance_results, bybit_results, okx_results>>

\* binance_results = fetch_binance_funding_direct(); all_results.extend(...)
CallBinance ==
    /\ pc["main"] = "fetch_binance"
    /\ \E answer \in BinanceAnswers :
         /\ responses' = [responses EXCEPT !.binance = answer]
         /\ LET outcome == fetch_binance_funding_direct(answer)
            IN  IF outcome.raised THEN RatesExcept
                ELSE /\ binance_results' = outcome.results
                     /\ all_results' = [all_results EXCEPT
                            !["main"] = @ \o outcome.results]
                     /\ pc' = [pc EXCEPT !["main"] = "fetch_bybit"]
                     /\ UNCHANGED <<funding_rates, bybit_results, okx_results>>
    /\ queried' = queried \cup {"binance"}
    /\ UNCHANGED <<untouched_by_collector, results>>

\* bybit_results = fetch_bybit_funding_direct(); all_results.extend(...)
CallBybit ==
    /\ pc["main"] = "fetch_bybit"
    /\ \E answers \in BybitAnswers :
         /\ responses' = [responses EXCEPT !.bybit = answers]
         /\ bybit_results' = fetch_bybit_funding_direct(answers)
    /\ all_results' = [all_results EXCEPT !["main"] = @ \o bybit_results']
    /\ queried' = queried \cup {"bybit"}
    /\ pc' = [pc EXCEPT !["main"] = "fetch_okx"]
    /\ UNCHANGED <<untouched_by_collector, results, funding_rates,
                   binance_results, okx_results>>

\* okx_results = fetch_okx_funding_direct(); all_results.extend(...)
CallOkx ==
    /\ pc["main"] = "fetch_okx"
    /\ \E answers \in OkxAnswers :
         /\ responses' = [responses EXCEPT !.okx = answers]
         /\ okx_results' = fetch_okx_funding_direct(answers)
    /\ all_results' = [all_results EXCEPT !["main"] = @ \o okx_results']
    /\ queried' = queried \cup {"okx"}
    /\ pc' = [pc EXCEPT !["main"] = "direct_done"]
    /\ UNCHANGED <<untouched_by_collector, results, funding_rates,
                   binance_results, bybit_results>>

\* if all_results: return all_results
DirectDone ==
    /\ pc["main"] = "direct_done"
    /\ IF queries_coinglass(all_results["main"])
       THEN /\ pc' = [pc EXCEPT !["main"] = "coinglass_loop"]
            /\ UNCHANGED funding_rates
       ELSE /\ funding_rates' = [funding_rates EXCEPT !["main"] = all_results["main"]]
            /\ pc' = [pc EXCEPT !["main"] = "rates_returned"]
    /\ UNCHANGED <<untouched_by_collector, collector, all_results, results>>

\* results = []; for symbol in TARGET_SYMBOLS[:5]: ...; return results
CoinglassLoop ==
    /\ pc["main"] = "coinglass_loop"
    /\ \E coinglass \in CoinglassResults :
         /\ results' = [results EXCEPT !["main"] = coinglass]
         /\ funding_rates' = [funding_rates EXCEPT !["main"] = coinglass]
    /\ queried' = queried \cup {"coinglass"}
    /\ pc' = [pc EXCEPT !["main"] = "rates_returned"]
    /\ UNCHANGED <<untouched_by_collector, all_results, responses,
                   binance_results, bybit_results, okx_results>>

CollectorNext ==
    \/ CallBinance
    \/ CallBybit
    \/ CallOkx
    \/ DirectDone
    \/ CoinglassLoop

CollectorSpec == CollectorInit /\ [][CollectorNext]_vars

(***************************************************************************)
(* The webhook on its own: MaxRequests requests, each handled by its own   *)
(* thread (app.run(threaded=True)), after the initial fetch of the main    *)
(* thread has scored what the exchanges sent and trading_signals has       *)
(* received some signals already.                                          *)
(***************************************************************************)
\* the quote list of the initial fetch when the exchanges answered
WebhookQuotes ==
    <<Quote("BTC", "binance", 60), Quote("BTC", "bybit", 200040),
      Quote("ETH", "okx", 60), Quote("ETH", "bybit", 115040)>>

\* the list of the initial fetch: no quote at all, or WebhookQuotes
WebhookCaches == {<<>>, WebhookQuotes}

\* trading_signals after n accepted requests, n =< 100
Prior(n) ==
    [k \in 1..n |->
        Stored(Post("object", webhook_auth_key, Symbol("BTC", UsdtSuffix), "EXIT",
                    "arbitrage"), k)]

PriorLengths == {0, MaxSignals - 1, MaxSignals}

\* the main thread has made its initial fetch, which scored what the
\* exchanges sent, and serves; the updater is about to start its loop
AfterInitialFetch ==
    /\ funding_data_cache \in WebhookCaches
    /\ arbitrage_opportunities =
            TopSlice(SortDesc(Collect(funding_data_cache,
                                      SymbolKeys(funding_data_cache), 100)))
    /\ last_update = 1
    /\ api_status = [status |-> "error", errors |-> 1]
    /\ pc = [t \in Threads |-> IF t = "main" THEN "app_run" ELSE "loop"]
    /\ all_results = [t \in Threads |-> <<>>]
    /\ results = [t \in Threads |-> <<>>]
    /\ funding_rates = [t \in Threads |-> <<>>]
    /\ coinglass_arbitrages = [t \in Threads |-> <<>>]
    /\ local_arbitrage_opportunities = [t \in Threads |-> Unbound]
    /\ opportunities = [t \in Threads |-> <<>>]
    /\ my_cycle = [t \in Threads |-> IF t = "main" THEN 1 ELSE 0]
    /\ cycles = 1
    /\ cacheCycle = 1
    /\ oppsCycle = 1
    /\ CollectorIdle
    /\ errors_before = [t \in Threads |-> 0]
    /\ slept = 0
    /\ ClockIdle

WebhookInit ==
    /\ AfterInitialFetch
    /\ \E n \in PriorLengths :
         /\ trading_signals = Prior(n)
         /\ stored = n
    /\ hpc = [h \in Handlers |-> "waiting"]
    /\ request = [h \in Handlers |-> NoRequest]
    /\ reply = [h \in Handlers |-> NoReply]

untouched_by_webhook ==
    <<globals, ghosts, frames, pc, my_cycle, cycles, collector, clock,
      errors_before, slept>>

\* data = request.get_json() and the checks up to line 638
Receive(h) ==
    /\ hpc[h] = "waiting"
    /\ \E req \in Requests :
         \E data \in get_json(req) :
            LET code == webhook_check(req, data)
            IN  /\ request' = [request EXCEPT ![h] = req]
                /\ IF code # 0
                   THEN /\ reply' = [reply EXCEPT ![h] = Reply(code, NoResult)]
                        /\ hpc' = [hpc EXCEPT ![h] = "done"]
                   ELSE /\ hpc' = [hpc EXCEPT ![h] = "append"]
                        /\ UNCHANGED reply
    /\ UNCHANGED <<untouched_by_webhook, trading_signals, stored>>

\* trading_signals.append(signal_data)
StoreSignal(h) ==
    /\ hpc[h] = "append"
    /\ trading_signals' = Append(trading_signals, Stored(request[h], stored + 1))
    /\ stored' = stored + 1
    /\ hpc' = [hpc EXCEPT ![h] = "check_len"]
    /\ UNCHANGED <<untouched_by_webhook, request, reply>>

\* if len(trading_signals) > 100
CheckLen(h) ==
    /\ hpc[h] = "check_len"
    /\ hpc' = [hpc EXCEPT ![h] =
            IF Len(trading_signals) > MaxSignals THEN "pop" ELSE "process"]
    /\ UNCHANGED <<untouched_by_webhook, trading_signals, stored, request, reply>>

\* trading_signals.pop(0)
PopOldest(h) ==
    /\ hpc[h] = "pop"
    /\ trading_signals' = pop_first(trading_signals)
    /\ hpc' = [hpc EXCEPT ![h] = "process"]
    /\ UNCHANGED <<untouched_by_webhook, stored, request, reply>>

\* if signal_data['strategy'] == 'arbitrage': process_arbitrage_signal; return
Process(h) ==
    /\ hpc[h] = "process"
    /\ reply' = [reply EXCEPT ![h] =
            Reply(200, IF request[h].strategy = "arbitrage"
                       THEN process_arbitrage_signal(request[h], arbitrage_opportunities)
                       ELSE NoResult)]
    /\ hpc' = [hpc EXCEPT ![h] = "done"]
    /\ UNCHANGED <<untouched_by_webhook, trading_signals, stored, request>>

WebhookNext ==
    \/ \E h \in Handlers : Receive(h)
    \/ \E h \in Handlers : StoreSignal(h)
    \/ \E h \in Handlers : CheckLen(h)
    \/ \E h \in Handlers : PopOldest(h)
    \/ \E h \in Handlers : Process(h)

WebhookSpec == WebhookInit /\ [][WebhookNext]_vars

(***************************************************************************)
(* The updater on its own, with no end to its cycles: the main thread has  *)
(* made its initial fetch and serves, and past MaxCycles the cycles keep   *)
(* the number MaxCycles.  The scheduler runs a thread that can take a      *)
(* step, and every request times out (timeout=15, timeout=20), so the      *)
(* updater is weakly fair.                                                 *)
(***************************************************************************)
UpdaterInit == AfterInitialFetch /\ WebhookIdle

\* while True: fetch_all_coinglass_data(), any number of times
UpdaterLoopForever ==
    /\ pc["updater"] = "loop"
    /\ cycles' = IF cycles < MaxCycles THEN cycles + 1 ELSE cycles
    /\ my_cycle' = [my_cycle EXCEPT !["updater"] = cycles']
    /\ errors_before' = [errors_before EXCEPT !["updater"] = api_status.errors]
    /\ pc' = [pc EXCEPT !["updater"] = "fetch_rates"]
    /\ UNCHANGED <<collector, webhook, clock, slept, globals, ghosts, frames>>

UpdaterNext ==
    \/ UpdaterLoopForever
    \/ UpdaterSleep
    \/ FetchRates("updater")
    \/ FetchArbitrage("updater")
    \/ UseCoinglass("updater")
    \/ CalcRead("updater")
    \/ CalcWrite("updater")
    \/ SetLastUpdate("updater")
    \/ SetStatus("updater")
    \/ LogData("updater")
    \/ Except("updater")

UpdaterSpec == UpdaterInit /\ [][UpdaterNext]_vars /\ WF_vars(UpdaterNext)

(***************************************************************************)
(* The countdown on its own: one call of time_until_funding, at an instant *)
(* of the day, while the server runs.                                      *)
(***************************************************************************)
CountdownInit ==
    /\ funding_data_cache = <<>>
    /\ arbitrage_opportunities = <<>>
    /\ last_update = None
    /\ api_status = [status |-> "initializing", errors |-> 0]
    /\ pc = [t \in Threads |-> IF t = "main" THEN "app_run" ELSE "loop"]
    /\ all_results = [t \in Threads |-> <<>>]
    /\ results = [t \in Threads |-> <<>>]
    /\ funding_rates = [t \in Threads |-> <<>>]
    /\ coinglass_arbitrages = [t \in Threads |-> <<>>]
    /\ local_arbitrage_opportunities = [t \in Threads |-> Unbound]
    /\ opportunities = [t \in Threads |-> <<>>]
    /\ my_cycle = [t \in Threads |-> 0]
    /\ cycles = 0
    /\ cacheCycle = 0
    /\ oppsCycle = 0
    /\ CollectorIdle
    /\ WebhookIdle
    /\ errors_before = [t \in Threads |-> 0]
    /\ slept = 0
    /\ utcnow \in Instants
    /\ next_funding = NoTime
    /\ countdown = NoCountdown
    /\ fpc = "called"

untouched_by_countdown ==
    <<globals, ghosts, frames, pc, my_cycle, cycles, collector, webhook,
      errors_before, slept>>

\* next_funding = get_next_funding_time(): the clock is read at line 54
NextFunding ==
    /\ fpc = "called"
    /\ next_funding' = get_next_funding_time(utcnow)
    /\ fpc' = "read_now"
    /\ UNCHANGED <<untouched_by_countdown, utcnow, countdown>>

\* now = datetime.utcnow() at line 68, some microseconds after the read at
\* line 54, and the rest of time_until_funding
ReadNow ==
    /\ fpc = "read_now"
    /\ \E elapsed \in 0..MaxElapsed : utcnow' = Advance(utcnow, elapsed)
    /\ countdown' = time_until_funding(next_funding, utcnow')
    /\ fpc' = "returned"
    /\ UNCHANGED <<untouched_by_countdown, next_funding>>

CountdownNext ==
    \/ NextFunding
    \/ ReadNow

CountdownSpec == CountdownInit /\ [][CountdownNext]_vars

(***************************************************************************)
(* The quote list seen as sets: the vocabulary of the properties.          *)
(***************************************************************************)
\* the steps of fetch_all_coinglass_data
CyclePcs ==
    {"fetch_rates", "fetch_arbitrage", "use_coinglass", "calculate", "calc_write",
     "set_last_update", "set_status", "log_data", "except"}

InCycle(t) == pc[t] \in CyclePcs

Range(seq) == {seq[i] : i \in DOMAIN seq}

Bases(cache) == {SplitBase(q.symbol) : q \in Range(cache)}

QuotesOf(cache, base) == {i \in DOMAIN cache : SplitBase(cache[i].symbol) = base}

ExchangesOf(cache, base) == {cache[i].exchange : i \in QuotesOf(cache, base)}

RateSet(cache, base) == {cache[i].fundingRate : i \in QuotesOf(cache, base)}

LeastRate(cache, base) ==
    LET rates == RateSet(cache, base)
    IN  CHOOSE r \in rates : \A r2 \in rates : r =< r2

GreatestRate(cache, base) ==
    LET rates == RateSet(cache, base)
    IN  CHOOSE r \in rates : \A r2 \in rates : r >= r2

\* (spread - commission) x 3 x 365 x 100, in 1e-6 percent
AnnualYield(cache, base) ==
    (GreatestRate(cache, base) - LeastRate(cache, base) - Commission) * 1095

Eligible(cache, base) ==
    /\ Cardinality(QuotesOf(cache, base)) >= 2
    /\ AnnualYield(cache, base) > MinAnnual

Retained(opps, base) == \E i \in DOMAIN opps : opps[i].symbol = base

\* an opportunity without its clock-dependent field
Core(opps) ==
    [i \in DOMAIN opps |->
        [symbol |-> opps[i].symbol, strategy |-> opps[i].strategy,
         longExchange |-> opps[i].longExchange,
         shortExchange |-> opps[i].shortExchange,
         longRate |-> opps[i].longRate, shortRate |-> opps[i].shortRate,
         divergence |-> opps[i].divergence,
         revenue_8h |-> opps[i].revenue_8h,
         revenue_annual_pct |-> opps[i].revenue_annual_pct]]

(***************************************************************************)
(* The refresh cycle (specification Spec).                                 *)
(***************************************************************************)

\* C1: whenever last_update is set, the quotes and the opportunities a reader
\* is served were produced by the same refresh cycle.
C1_CacheAtomicity ==
    get_status.last_update # None => cacheCycle = oppsCycle

\* C2: at most one refresh cycle is in flight at any time, across the main
\* thread's initial fetch and the background updater.
C2_SingleRefresh ==
    Cardinality({t \in Threads : InCycle(t)}) =< 1

\* C3: a refresh cycle that collected no quote leaves the cached quotes and
\* opportunities as they were: neither its publishing of the quotes nor its
\* scoring changes them.
C3_FailedRefreshKeepsCache ==
    [][\A t \in Threads :
        /\ (pc[t] = "fetch_rates" /\ pc'[t] = "fetch_arbitrage"
                /\ funding_rates'[t] = <<>>)
            => funding_data_cache' = funding_data_cache
        /\ (pc[t] = "calc_write" /\ pc'[t] = "set_last_update"
                /\ funding_rates[t] = <<>>)
            => arbitrage_opportunities' = arbitrage_opportunities]_vars

\* C4: a cycle that has just set last_update has published its own
\* opportunities: GET /api/arbitrage serves the list of that cycle (the
\* CoinGlass list when it is not empty) or of a later one, never an earlier one.
C4_PublishesCycleOpportunities ==
    \A t \in Threads :
        pc[t] = "set_status" =>
            /\ oppsCycle >= my_cycle[t]
            /\ (oppsCycle = my_cycle[t] /\ coinglass_arbitrages[t] # <<>>)
                => get_arbitrage.data = coinglass_arbitrages[t]

C15_FailureAddsOneError ==
    [][\A t \in Threads :
        /\ (pc[t] = "except" /\ pc'[t] = "returned")
            => api_status'.errors = errors_before[t] + 1
        /\ (pc[t] = "set_status" /\ pc'[t] = "log_data")
            => api_status'.errors = 0]_vars

\* C16: the updater sleeps 60 s after a cycle that failed and 180 s after a
\* cycle that succeeded.
C16_BackoffAfterFailure ==
    [][(pc["updater"] = "returned" /\ pc'["updater"] # "returned")
        => slept' = IF local_arbitrage_opportunities["updater"].bound
                    THEN 180 ELSE 60]_vars

\* C17: the updater never stops: whatever the outcome of a cycle, as long as
\* the threads are scheduled the updater starts a refresh cycle again and
\* again.
C17_UpdaterKeepsCycling ==
    /\ []<>(pc["updater"] = "fetch_rates")
    /\ (pc["updater"] = "returned") ~> (pc["updater"] = "fetch_rates")

C17_Witness ==
    /\ pc["updater"] = "fetch_rates"
    /\ slept = 180
    /\ api_status.status = "error"
    /\ errors_before["updater"] = 1

\* the step on which thread t leaves fetch_all_coinglass_data: the end of the
\* try block (line 569) or the end of the except clause (line 577)
EndsCycle(t) == InCycle(t) /\ pc'[t] = "returned"

\* C21: when a refresh cycle ends, api_status is 'success' with errors = 0
\* exactly when last_update is the instant that cycle set; in particular a
\* cycle that has set last_update does not end with status 'error'.
C21_StatusAgreesWithLastUpdate ==
    [][\A t \in Threads :
        EndsCycle(t) =>
            ((api_status'.status = "success" /\ api_status'.errors = 0)
                <=> last_update' = my_cycle[t])]_vars

(***************************************************************************)
(* The scorer (specification ScorerSpec, where funding_data_cache is fixed *)
(* and oppsCycle # 0 says that the scorer has written its result).         *)
(***************************************************************************)

\* C6: every emitted opportunity is for a symbol quoted by at least two
\* distinct exchanges, and its long and short exchanges differ.
C6_TwoDistinctExchanges ==
    oppsCycle # 0 =>
        \A i \in DOMAIN arbitrage_opportunities :
            LET opp == arbitrage_opportunities[i]
            IN  /\ Cardinality(ExchangesOf(funding_data_cache, opp.symbol)) >= 2
                /\ opp.longExchange # opp.shortExchange

\* the legs of an opportunity are the minimum-rate and the maximum-rate quote
LegsAreMinMax(opp) ==
    /\ opp.longRate =< opp.shortRate
    /\ opp.longRate = Round(LeastRate(funding_data_cache, opp.symbol), 100)
    /\ opp.shortRate = Round(GreatestRate(funding_data_cache, opp.symbol), 100)
    /\ \E i \in QuotesOf(funding_data_cache, opp.symbol) :
          /\ funding_data_cache[i].exchange = opp.longExchange
          /\ funding_data_cache[i].fundingRate
                = LeastRate(funding_data_cache, opp.symbol)
    /\ \E i \in QuotesOf(funding_data_cache, opp.symbol) :
          /\ funding_data_cache[i].exchange = opp.shortExchange
          /\ funding_data_cache[i].fundingRate
                = GreatestRate(funding_data_cache, opp.symbol)

\* C7 as claimed: longRate <= shortRate, the legs are the minimum-rate and
\* maximum-rate quotes, and divergence = shortRate - longRate >= 0.
C7_DivergenceIsRateDifference ==
    oppsCycle # 0 =>
        \A i \in DOMAIN arbitrage_opportunities :
            LET opp == arbitrage_opportunities[i]
            IN  /\ LegsAreMinMax(opp)
                /\ opp.divergence = opp.shortRate - opp.longRate
                /\ opp.divergence >= 0

\* C7 as amended: longRate <= shortRate, the legs are the minimum-rate and
\* maximum-rate quotes (rates rounded to 6 decimals), and divergence is the
\* 6-decimal rounding of the unrounded maximum minus minimum: it is >= 0 and
\* within 1e-6 of shortRate - longRate.
C7_DivergenceIsRoundedSpread ==
    oppsCycle # 0 =>
        \A i \in DOMAIN arbitrage_opportunities :
            LET opp == arbitrage_opportunities[i]
            IN  /\ LegsAreMinMax(opp)
                /\ opp.divergence =
                        Round(GreatestRate(funding_data_cache, opp.symbol)
                                - LeastRate(funding_data_cache, opp.symbol), 100)
                /\ opp.divergence >= 0
                /\ Abs(opp.divergence - (opp.shortRate - opp.longRate)) =< 100

C7_Witness ==
    /\ oppsCycle # 0
    /\ \E i \in DOMAIN arbitrage_opportunities :
          LET opp == arbitrage_opportunities[i]
          IN  /\ opp.longRate < 0
              /\ opp.shortRate > 0
              /\ opp.divergence # opp.shortRate - opp.longRate

\* C8: an opportunity is retained only if its annualized yield strictly
\* exceeds 10 percent, and no symbol whose annualized yield is at most 10
\* percent has an opportunity.
C8_YieldAboveThreshold ==
    oppsCycle # 0 =>
        /\ \A i \in DOMAIN arbitrage_opportunities :
              AnnualYield(funding_data_cache, arbitrage_opportunities[i].symbol)
                  > 10000000
        /\ \A base \in Bases(funding_data_cache) :
              AnnualYield(funding_data_cache, base) =< 10000000
                  => ~Retained(arbitrage_opportunities, base)

C8_Witness ==
    /\ oppsCycle # 0
    /\ arbitrage_opportunities # <<>>
    /\ \E base \in Bases(funding_data_cache) :
          /\ Cardinality(QuotesOf(funding_data_cache, base)) >= 2
          /\ AnnualYield(funding_data_cache, base) > 0
          /\ AnnualYield(funding_data_cache, base) =< 10000000
          /\ ~Retained(arbitrage_opportunities, base)

FirstWith(cache, base, rate) ==
    LET at == {i \in QuotesOf(cache, base) : cache[i].fundingRate = rate}
    IN  cache[CHOOSE i \in at : \A j \in at : i =< j]

\* C18: when several quotes of a symbol share its minimum rate (its maximum
\* rate), the long leg (the short leg) of its opportunity is the exchange of
\* the first of them in the quote list.
C18_TiesGoToFirstSeen ==
    oppsCycle # 0 =>
        \A i \in DOMAIN arbitrage_opportunities :
            LET opp == arbitrage_opportunities[i]
            IN  /\ opp.longExchange =
                    FirstWith(funding_data_cache, opp.symbol,
                              LeastRate(funding_data_cache, opp.symbol)).exchange
                /\ opp.shortExchange =
                    FirstWith(funding_data_cache, opp.symbol,
                              GreatestRate(funding_data_cache, opp.symbol)).exchange

C18_Witness ==
    /\ oppsCycle # 0
    /\ \E i \in DOMAIN arbitrage_opportunities :
          LET opp == arbitrage_opportunities[i]
              least == LeastRate(funding_data_cache, opp.symbol)
          IN  \E j, k \in QuotesOf(funding_data_cache, opp.symbol) :
                /\ j < k
                /\ funding_data_cache[j].fundingRate = least
                /\ funding_data_cache[k].fundingRate = least
                /\ funding_data_cache[j].exchange # funding_data_cache[k].exchange
                /\ opp.longExchange = funding_data_cache[j].exchange

(***************************************************************************)
(* The collector (specification CollectorSpec).                            *)
(***************************************************************************)
\* an answer that is a failure of its request: no answer, a status other
\* than 200, a body that is no JSON, or a body with a rate that is no number
Broken(answer) ==
    \/ answer.status # "ok"
    \/ \E i \in DOMAIN answer.body : answer.body[i].fundingRate.json = "text"

\* the USDT records of a Binance body that carry a rate, as quotes
BinanceQuotes(body) ==
    LET good == SelectSeq(body, LAMBDA r :
                    r.symbol[2] = "USDT" /\ r.fundingRate.json = "numeral")
    IN  [i \in DOMAIN good |->
            Quote(good[i].symbol[1], "binance", good[i].fundingRate.units)]

\* the records of a Bybit or OKX body that carry a rate, as quotes
SymbolQuotes(exchange, base, body) ==
    LET good == SelectSeq(body, LAMBDA r : r.fundingRate.json = "numeral")
    IN  [i \in DOMAIN good |-> Quote(base, exchange, good[i].fundingRate.units)]

Count(q, list) == Cardinality({i \in DOMAIN list : list[i] = q})

\* every quote of part is in list, as many times
Contains(list, part) ==
    \A i \in DOMAIN part : Count(part[i], list) >= Count(part[i], part)

DirectExchanges == {"binance", "bybit", "okx"}

\* C11: whatever requests fail (no answer, a status other than 200, a
\* malformed body), the call of fetch_coinglass_funding_rates returns, it has
\* asked all three exchanges, and what it returns contains every quote of
\* every request that did not fail.
C11_FailuresAreIsolated ==
    pc["main"] = "rates_returned" =>
        /\ DirectExchanges \subseteq queried
        /\ ~Broken(responses.binance)
            => Contains(funding_rates["main"], BinanceQuotes(responses.binance.body))
        /\ \A k \in DOMAIN test_symbols :
              ~Broken(responses.bybit[k])
              => Contains(funding_rates["main"],
                          SymbolQuotes("bybit", test_symbols[k], responses.bybit[k].body))
        /\ \A k \in DOMAIN test_instruments :
              ~Broken(responses.okx[k])
              => Contains(funding_rates["main"],
                          SymbolQuotes("okx", test_instruments[k], responses.okx[k].body))

C11_Witness ==
    /\ pc["main"] = "rates_returned"
    /\ responses.binance.status = "timeout"
    /\ responses.bybit[1].status = "bad_json"
    /\ ~Broken(responses.bybit[2])
    /\ ~Broken(responses.okx[1])
    /\ responses.okx[2].status = "status_500"
    /\ funding_rates["main"]
          = <<Quote("ETH", "bybit", 200040), Quote("BTC", "okx", 200040)>>


\* C12: in every exchange fetcher a record whose rate is missing, null or not
\* a number is dropped alone: every valid record of an answered request is
\* returned by the fetcher, whatever the other records of that answer hold.
C12_InvalidRecordDroppedAlone ==
    /\ ("binance" \in queried /\ responses.binance.status = "ok")
        => binance_results = BinanceQuotes(responses.binance.body)
    /\ "bybit" \in queried
        => \A k \in DOMAIN test_symbols :
              responses.bybit[k].status = "ok"
              => Contains(bybit_results,
                          SymbolQuotes("bybit", test_symbols[k], responses.bybit[k].body))
    /\ "okx" \in queried
        => \A k \in DOMAIN test_instruments :
              responses.okx[k].status = "ok"
              => Contains(okx_results,
                          SymbolQuotes("okx", test_instruments[k], responses.okx[k].body))


\* C20: CoinGlass is queried only after the three direct fetches returned no
\* quote at all; when they returned at least one, the call returns exactly
\* the Binance, Bybit and OKX results concatenated in that order; what it
\* returns is either that list or the list of the CoinGlass loop, never a mix.
C20_CoinglassOnlyWhenDirectEmpty ==
    LET direct == binance_results \o bybit_results \o okx_results
    IN  /\ "coinglass" \in queried
            => (DirectExchanges \subseteq queried /\ direct = <<>>)
        /\ pc["main"] = "rates_returned"
            => /\ direct # <<>>
                    => /\ funding_rates["main"] = direct
                       /\ "coinglass" \notin queried
               /\ funding_rates["main"] \in {direct, results["main"]}
               /\ funding_rates["main"]
                    = fetch_coinglass_funding_rates(binance_results, bybit_results,
                                                    okx_results, results["main"])

C20_Witness ==
    /\ pc["main"] = "rates_returned"
    /\ "coinglass" \notin queried
    /\ binance_results # <<>>
    /\ bybit_results = <<>>
    /\ okx_results # <<>>
    /\ funding_rates["main"] = binance_results \o okx_results


(***************************************************************************)
(* The webhook (specification WebhookSpec).                                *)
(***************************************************************************)
\* the handler h has just answered with this code, without storing anything
\* and without going on to store
Rejected(h, code) ==
    /\ reply'[h].code = code
    /\ hpc'[h] = "done"
    /\ trading_signals' = trading_signals

\* C13: a request without a JSON body is answered 400, one with a wrong
\* auth_key 401 (also when fields are missing too), one with an empty symbol
\* or action 400, and none of them changes trading_signals.
C13_RejectedWithoutStoring ==
    [][\A h \in Handlers :
        (hpc[h] = "waiting" /\ hpc'[h] # "waiting") =>
            LET req == request'[h]
            IN  /\ req.body # "object" => Rejected(h, 400)
                /\ (req.body = "object" /\ req.auth_key # webhook_auth_key)
                    => Rejected(h, 401)
                /\ (req.body = "object" /\ req.auth_key = webhook_auth_key
                        /\ (req.symbol = NoSymbol \/ req.action = ""))
                    => Rejected(h, 400)]_vars


\* no request is between its append and its return
Quiet == \A h \in Handlers : hpc[h] \in {"waiting", "done"}

Processed(h) ==
    hpc[h] = "done" /\ reply[h].code = 200 /\ request[h].strategy = "arbitrage"

\* the published list is the one scored from the served quotes
PublishedUntouched ==
    arbitrage_opportunities =
        TopSlice(SortDesc(Collect(funding_data_cache,
                                  SymbolKeys(funding_data_cache), 100)))

\* the entries of the published list for a base asset
EntriesOf(base) ==
    {i \in DOMAIN arbitrage_opportunities : arbitrage_opportunities[i].symbol = base}

\* the result of a signal that found the entries found in the published list
ResultFor(signal, found) ==
    IF found = {} \/ signal.action \notin {"ENTER", "EXIT"}
    THEN Result("warning", "", "", "", 0)
    ELSE IF signal.action = "EXIT"
    THEN Result("success", "EXIT_ARBITRAGE", "", "", 0)
    ELSE LET first == arbitrage_opportunities[
                        CHOOSE i \in found : \A j \in found : i =< j]
         IN  Result("success", "ENTER_ARBITRAGE", first.longExchange,
                    first.shortExchange, first.revenue_annual_pct)

Boundaries(now) ==
    {DateTime(day, hour, 0, 0, 0) :
        day \in {now.day, now.day + 1}, hour \in {0, 8, 16}}

\* b is the earliest boundary strictly later than now
EarliestBoundaryAfter(b, now) ==
    /\ b \in Boundaries(now)
    /\ Later(b, now)
    /\ \A other \in Boundaries(now) : Later(other, now) => ~Later(b, other)

\* b is at most 8 hours after now
WithinEightHours(b, now) ==
    LET delta == Minus(b, now)
    IN  \/ delta.seconds < 8 * 3600
        \/ delta.seconds = 8 * 3600 /\ delta.microseconds = 0

TotalMinutesInRange ==
    countdown.total_minutes >= 0 /\ countdown.total_minutes =< 480

PartsAddUp ==
    countdown.hours_remaining * 60 + countdown.minutes_remaining
        = countdown.total_minutes

\* C22: get_next_funding_time returns the earliest of the 00:00, 08:00 and
\* 16:00 UTC boundaries strictly later than the instant it reads, at most 8
\* hours ahead, and time_until_funding reports total_minutes between 0 and
\* 480 with hours_remaining * 60 + minutes_remaining = total_minutes.
C22_CountdownWithinEightHours ==
    /\ fpc = "read_now" =>
          /\ EarliestBoundaryAfter(next_funding, utcnow)
          /\ WithinEightHours(next_funding, utcnow)
    /\ fpc = "returned" =>
          /\ TotalMinutesInRange
          /\ PartsAddUp

=============================================================================
